---- MODULE Spec2Model ----
(***************************************************************************)
(* Reddit sentiment dashboard: the fetch orchestrator (fetch_data.py), the *)
(* classifier adapter (get_sentiment.py), the filter/aggregate functions   *)
(* (utlity.py) and the Streamlit script that wires them (app.py).          *)
(*                                                                         *)
(* A DataFrame is a record [cols, pt_dtype, rows]: the set of its column   *)
(* names, the dtype of its "Post Time" column, and its rows in order. A    *)
(* row carries its pandas index label (idx) and one cell per column; the   *)
(* cell of a column the frame does not have holds the NoCell filler and is *)
(* never read.                                                             *)
(***************************************************************************)
EXTENDS Integers, Sequences, FiniteSets, TLC

VARIABLES
    pc,            \* position of the running script / function
    message,       \* what the handler last showed: none, warning, success, error
    exc,           \* the exception in flight when pc = "raised"
    session_has_df,\* "df" in st.session_state
    session_df,    \* st.session_state.df
    limit,         \* fetch_data: the limit argument
    subreddits,    \* fetch_data: the list returned by get_subreddits
    i,             \* fetch_data: 1-based position of the for loop
    all_data,      \* fetch_data: all_data
    outcomes,      \* history: what the Source Client did for each requested source
    fetch_result,  \* the value fetch_data returned
    sent_in,       \* sentiment: the df argument
    batch_size,    \* sentiment: the batch_size argument
    filtered_df,   \* sentiment: filtered_df
    texts,         \* sentiment: texts
    bi,            \* sentiment: the loop variable i (0-based)
    all_results,   \* sentiment: all_results
    calls,         \* history: every classifier call, [batch, results]
    model,         \* the pretrained classifier, a function from text to label
    sent_out,      \* the value sentiment returned
    arg_df,        \* utlity: the frame handed to a filter function on its own
    table0,        \* history: the table as it was before the first utlity call
    sel,           \* the subreddits argument (the multiselect's value)
    start_date,    \* the start_date argument
    end_date,      \* the end_date argument
    ret_subreddit_range,  \* what subreddit_range returned
    ret_time_range,       \* what time_range returned
    ret_key_metrics,      \* what key_metrics returned
    ret_pie,              \* the frame contribution_pie_chart plots
    ret_examples,         \* what show_examples returned
    ret_examples2,        \* what the next show_examples call returned
    invoked,       \* history: the aggregation functions the dashboard called, in order
    shown,         \* what the dashboard showed besides its charts: warning, info
    pauses         \* history: every quota check of fetch_data and the sleep that followed

fetch_vars == <<limit, subreddits, i, all_data, outcomes, fetch_result>>
sent_vars  == <<sent_in, batch_size, filtered_df, texts, bi, all_results, calls, sent_out>>
app_vars   == <<message, session_has_df, session_df>>
util_vars  == <<arg_df, table0, sel, start_date, end_date, ret_subreddit_range,
                ret_time_range, ret_key_metrics, ret_pie, ret_examples, ret_examples2>>
hist_vars  == <<invoked, shown, pauses>>
vars       == <<pc, exc, model, app_vars, fetch_vars, sent_vars, util_vars, hist_vars>>

(***************************************************************************)
(* Bounds of the model.                                                    *)
(***************************************************************************)
MaxSources == 2      \* longest list get_subreddits returns
MaxPosts   == 2      \* most posts one source returns (the limit argument)
MaxRows    == 4      \* longest table handed to sentiment on its own
MaxFilterRows == 3   \* longest table handed to a filter function on its own
MaxAggRows == 3      \* longest session table handed to the aggregations
MaxBatch   == 3      \* largest batch_size handed to sentiment on its own
MaxMonth   == 2      \* posts are created in months 1 .. MaxMonth
MaxDashRows == 4     \* longest session table the dashboard is run on

DefaultBatchSize == 2
LowQuota == 2            \* the safety threshold of the quota check
CourtesyDelayMs == 500   \* time.sleep(0.5)

(***************************************************************************)
(* Time: an instant is a tick; a date is a day number.                     *)
(***************************************************************************)
\* The instants of a day that are told apart, and the days of a month: an
\* instant is the tick day * TicksPerDay + (position in TimesOfDay - 1), so
\* tick 0 of a day is datetime.min.time() and the last is datetime.max.time().
\* Month 0 lies before every post, so that a date range can start before
\* the earliest post.
TimesOfDay    == <<"00:00:00.000000", "12:00:00.000000", "23:59:59.999999">>
DaysOfMonth   == <<"01", "02">>
TicksPerDay   == Len(TimesOfDay)
DaysPerMonth  == Len(DaysOfMonth)
NumDays       == (MaxMonth + 1) * DaysPerMonth
Dates         == 0 .. NumDays - 1
Months        == 1 .. MaxMonth
Ticks         == 0 .. NumDays * TicksPerDay - 1
TicksPerMonth == DaysPerMonth * TicksPerDay
MonthStart(m) == m * TicksPerMonth
DateOf(t)     == t \div TicksPerDay          \* Timestamp.date()
NoDate        == 0 - 1                        \* None, where a date is expected

\* A "Post Time" cell.
DT(t)       == [kind |-> "datetime", v |-> t]     \* a Timestamp
MonthStr(m) == [kind |-> "month_str", v |-> m]    \* the string "MM/YYYY"
BadStr      == [kind |-> "bad_str", v |-> 0]      \* a string that is no date
NaT         == [kind |-> "NaT", v |-> 0]

\* Series.dt.strftime('%m/%Y') on one Timestamp
strftime_mY(t) == MonthStr(t \div TicksPerMonth)

(***************************************************************************)
(* Tables.                                                                 *)
(***************************************************************************)
NoCell     == "<no column>"
AbsentText == "<NaN>"

PostCols    == {"Title", "Subreddit", "Post Time", "Text", "Link"}
EmptyCols   == {"Title", "Subreddit", "Post Time", "Text"}
LabeledCols == PostCols \cup {"Title + Text", "Sentiment"}

Frame(cols, dtype, rows) == [cols |-> cols, pt_dtype |-> dtype, rows |-> rows]
NoFrame == Frame({}, "object", <<>>)

Min(a, b) == IF a < b THEN a ELSE b

RECURSIVE Flatten(_)
Flatten(ss) == IF ss = <<>> THEN <<>> ELSE Head(ss) \o Flatten(Tail(ss))

\* reset the index labels to 0..n-1 (ignore_index=True, or a fresh frame)
RangeIndex(rows) == [k \in 1 .. Len(rows) |-> [rows[k] EXCEPT !.idx = k - 1]]

(***************************************************************************)
(* fetch_data.py                                                           *)
(***************************************************************************)
SourceNames    == {"A", "B", "C"}
CreatedSamples == {MonthStart(m) + TicksPerMonth - 1 : m \in Months}
Submissions    == [title : {"Nice"}, selftext : {"day"}, created : CreatedSamples, url : {"L"}]

RECURSIVE DistinctSeqs(_, _)
DistinctSeqs(S, n) ==
    IF n = 0 THEN {<<>>}
    ELSE {<<>>} \cup {<<s>> \o r : s \in S, r \in DistinctSeqs(S, n - 1)}
SourceLists == {l \in DistinctSeqs(SourceNames, MaxSources) :
                   \A a, b \in 1 .. Len(l) : a # b => l[a] # l[b]}
SubmissionLists == UNION {[1 .. n -> Submissions] : n \in 0 .. MaxPosts}

\* get_posts: the frame built from the submissions the search yielded
get_posts(subreddit_name, subs) ==
    Frame(PostCols,
          IF subs = <<>> THEN "object" ELSE "datetime",
          [k \in 1 .. Len(subs) |->
              [idx |-> k - 1, Title |-> subs[k].title, Subreddit |-> subreddit_name,
               PostTime |-> DT(subs[k].created), Text |-> subs[k].selftext,
               Link |-> subs[k].url, TitleText |-> NoCell, Sentiment |-> NoCell]])

\* pd.concat(all_data, ignore_index=True): the dtype of a column that is
\* empty in every frame stays object
concat(frames) ==
    Frame(PostCols,
          IF \E k \in 1 .. Len(frames) : frames[k].pt_dtype = "datetime"
          THEN "datetime" ELSE "object",
          RangeIndex(Flatten([k \in 1 .. Len(frames) |-> frames[k].rows])))

\* df["Post Time"] = df["Post Time"].dt.strftime('%m/%Y')
format_post_time(df) ==
    Frame(df.cols, "object",
          [k \in 1 .. Len(df.rows) |->
              [df.rows[k] EXCEPT !.PostTime = strftime_mY(@.v)]])

\* the frame returned when all_data is empty
empty_result == Frame(EmptyCols, "object", <<>>)

\* where the for loop goes after "except Forbidden: ... continue"
AfterForbiddenBreak(pos, n) == n + 1
AfterForbidden(pos, n) == pos + 1

\* What the user and the search are taken to do at a click: the per-source
\* limit entered, and the list get_subreddits returns.
ClickLimits   == {1}
ClickSearches == {l \in SourceLists : Len(l) <= 2 /\ \A k \in 1 .. Len(l) : l[k] \in {"A", "B"}}

Click ==
    /\ pc = "idle"
    /\ \E l \in ClickSearches : subreddits' = l
    /\ \E n \in ClickLimits : limit' = n
    /\ pc' = "fetch_loop"
    /\ i' = 1
    /\ all_data' = <<>>
    /\ outcomes' = <<>>
    /\ calls' = <<>>
    /\ pauses' = <<>>
    /\ message' = "none"
    /\ UNCHANGED <<invoked, shown, util_vars, model, exc, session_has_df, session_df, fetch_result,
                   sent_in, batch_size, filtered_df, texts, bi, all_results, sent_out>>

ClickBlankKeyword ==
    /\ pc = "idle"
    /\ message' = "warning"
    /\ UNCHANGED <<hist_vars, util_vars, model, pc, exc, session_has_df, session_df, fetch_vars, sent_vars>>

ClickSearchRaises ==
    /\ pc = "idle"
    /\ \E n \in ClickLimits : limit' = n
    /\ subreddits' = <<>>
    /\ i' = 1
    /\ all_data' = <<>>
    /\ outcomes' = <<>>
    /\ calls' = <<>>
    /\ message' = "none"
    /\ pauses' = <<>>
    /\ pc' = "raised"
    /\ exc' = "SourceClientError"
    /\ UNCHANGED <<invoked, shown, util_vars, model, session_has_df, session_df, fetch_result,
                   sent_in, batch_size, filtered_df, texts, bi, all_results, sent_out>>

\* reddit.auth.limits after a request: nothing reported yet, or the remaining
\* quota and the time left until reset_timestamp (negative once it has passed)
NoQuota == 0 - 1
LimitReports ==
    {[remaining |-> NoQuota, reset_in |-> 0]}
        \cup [remaining : {LowQuota - 1, LowQuota}, reset_in : {0 - 1000, 1000}]

Max(a, b) == IF a > b THEN a ELSE b

\* "remaining is not None and remaining < 2"
approaching_limit_at_two(remaining) == remaining # NoQuota /\ remaining <= LowQuota
approaching_limit(remaining) == remaining # NoQuota /\ remaining < LowQuota

\* max(0, reset_time - time.time()), in milliseconds
sleep_time(reset_in) == Max(0, reset_in)

\* lines 100-111: the quota check and the one time.sleep that follows it,
\* recorded with the position of the source it came after
rate_limit_pause(pos, limits) ==
    [after |-> pos, remaining |-> limits.remaining, reset_in |-> limits.reset_in,
     kind |-> IF approaching_limit(limits.remaining) THEN "reset" ELSE "courtesy",
     slept |-> IF approaching_limit(limits.remaining)
               THEN sleep_time(limits.reset_in)
               ELSE CourtesyDelayMs]

\* one iteration of the loop whose get_posts call returns: lines 93-111
FetchSource ==
    /\ pc = "fetch_loop"
    /\ i <= Len(subreddits)
    /\ \E subs \in SubmissionLists :
          /\ Len(subs) <= limit
          /\ all_data' = Append(all_data, get_posts(subreddits[i], subs))
          /\ outcomes' = Append(outcomes, [source |-> subreddits[i], kind |-> "ok", subs |-> subs])
    /\ \E limits \in LimitReports :
          pauses' = Append(pauses, rate_limit_pause(Len(outcomes) + 1, limits))
    /\ i' = i + 1
    /\ UNCHANGED <<invoked, shown, util_vars, model, pc, exc, app_vars, limit, subreddits, fetch_result, sent_vars>>

FetchForbidden ==
    /\ pc = "fetch_loop"
    /\ i <= Len(subreddits)
    /\ outcomes' = Append(outcomes, [source |-> subreddits[i], kind |-> "forbidden", subs |-> <<>>])
    /\ i' = AfterForbidden(i, Len(subreddits))
    /\ UNCHANGED <<hist_vars, util_vars, model, pc, exc, app_vars, limit, subreddits, all_data, fetch_result, sent_vars>>

FetchOtherError ==
    /\ pc = "fetch_loop"
    /\ i <= Len(subreddits)
    /\ outcomes' = Append(outcomes, [source |-> subreddits[i], kind |-> "error", subs |-> <<>>])
    /\ pc' = "raised"
    /\ exc' = "SourceClientError"
    /\ UNCHANGED <<hist_vars, util_vars, model, app_vars, limit, subreddits, i, all_data, fetch_result, sent_vars>>

FetchReturn ==
    /\ pc = "fetch_loop"
    /\ i > Len(subreddits)
    /\ IF all_data # <<>>
       THEN LET df == concat(all_data) IN
            IF df.pt_dtype = "datetime"
            THEN /\ fetch_result' = format_post_time(df)
                 /\ sent_in' = format_post_time(df)
                 /\ batch_size' = DefaultBatchSize
                 /\ pc' = "sentiment_start"
                 /\ exc' = exc
            ELSE /\ pc' = "raised"
                 /\ exc' = "AttributeError"
                 /\ UNCHANGED <<fetch_result, sent_in, batch_size>>
       ELSE /\ fetch_result' = empty_result
            /\ sent_in' = empty_result
            /\ batch_size' = DefaultBatchSize
            /\ pc' = "sentiment_start"
            /\ exc' = exc
    /\ UNCHANGED <<hist_vars, util_vars, model, app_vars, limit, subreddits, i, all_data, outcomes,
                   filtered_df, texts, bi, all_results, calls, sent_out>>

(***************************************************************************)
(* get_sentiment.py                                                        *)
(***************************************************************************)
Labels == {"positive", "neutral", "negative"}

\* Words a title or a body is made of. A string is modelled by its words:
\* Title + " " + Text is the two-word sequence <<Title, Text>>.
Lower(w) ==
    CASE w = "Nice" -> "nice"
      [] w = "POSITIVE" -> "positive"
      [] OTHER      -> w
IsUrl(w)     == w \in {"www.x.io"}          \* matches http\S+|www\S+
IsMention(w) == w \in {"u/bob", "r/pics"}   \* matches u/[..]+ or r/[..]+

RECURSIVE JoinWords(_)
JoinWords(ws) ==
    IF ws = <<>> THEN ""
    ELSE IF Len(ws) = 1 THEN ws[1]
    ELSE ws[1] \o " " \o JoinWords(Tail(ws))

\* clean_text: lower-case, delete URLs and mentions, collapse white space, strip
clean_text(words) ==
    LET lowered == [k \in 1 .. Len(words) |-> Lower(words[k])]
        kept    == SelectSeq(lowered, LAMBDA w : ~IsUrl(w) /\ ~IsMention(w) /\ w # "")
    IN  JoinWords(kept)

Titles     == {"Nice"}
Bodies     == {"day", "www.x.io"}
CleanTexts == {clean_text(<<t, b>>) : t \in Titles, b \in Bodies}

\* df.dropna(subset=["Text"]).copy(): the index labels of the kept rows stay
dropna_text(df) ==
    Frame(df.cols, df.pt_dtype, SelectSeq(df.rows, LAMBDA r : r.Text # AbsentText))

\* filtered_df["Title + Text"] = (Title + " " + Text).apply(clean_text)
with_title_text(df) ==
    Frame(df.cols \cup {"Title + Text"}, df.pt_dtype,
          [k \in 1 .. Len(df.rows) |->
              [df.rows[k] EXCEPT !.TitleText = clean_text(<<df.rows[k].Title, df.rows[k].Text>>)]])

\* texts[i:i + batch_size]
batch_slice_short(ts, start, bs) == SubSeq(ts, start + 1, Min(start + bs - 1, Len(ts)))
batch_slice(ts, start, bs) == SubSeq(ts, start + 1, Min(start + bs, Len(ts)))

\* filtered_df["Sentiment"] = [r["label"] for r in all_results]
with_sentiment(df, labels) ==
    Frame(df.cols \cup {"Sentiment"}, df.pt_dtype,
          [k \in 1 .. Len(df.rows) |-> [df.rows[k] EXCEPT !.Sentiment = labels[k]]])

\* model(batch, truncation=True, max_length=max_length): one label per text,
\* in the order of the batch
classify(batch) == [k \in 1 .. Len(batch) |-> model[batch[k]]]

SentimentStart ==
    /\ pc = "sentiment_start"
    /\ filtered_df' = with_title_text(dropna_text(sent_in))
    /\ texts' = [k \in 1 .. Len(dropna_text(sent_in).rows) |->
                    with_title_text(dropna_text(sent_in)).rows[k].TitleText]
    /\ all_results' = <<>>
    /\ bi' = 0
    /\ pc' = "sentiment_loop"
    /\ UNCHANGED <<hist_vars, util_vars, model, exc, app_vars, fetch_vars, sent_in, batch_size, calls, sent_out>>

SentimentBatch ==
    /\ pc = "sentiment_loop"
    /\ bi < Len(texts)
    /\ LET batch == batch_slice(texts, bi, batch_size) IN
       LET results == classify(batch) IN
          /\ all_results' = all_results \o results
          /\ calls' = Append(calls, [batch |-> batch, results |-> results])
    /\ bi' = bi + batch_size
    /\ UNCHANGED <<hist_vars, util_vars, model, pc, exc, app_vars, fetch_vars, sent_in, batch_size, filtered_df, texts, sent_out>>

SentimentBatchRaises ==
    /\ pc = "sentiment_loop"
    /\ bi < Len(texts)
    /\ pc' = "raised"
    /\ exc' = "ClassifierError"
    /\ UNCHANGED <<hist_vars, util_vars, model, app_vars, fetch_vars, sent_vars>>

SentimentReturn ==
    /\ pc = "sentiment_loop"
    /\ bi >= Len(texts)
    /\ IF Len(all_results) = Len(filtered_df.rows)
       THEN /\ sent_out' = with_sentiment(filtered_df, all_results)
            /\ pc' = "sentiment_done"
            /\ exc' = exc
       ELSE /\ pc' = "raised"
            /\ exc' = "ValueError"
            /\ sent_out' = sent_out
    /\ UNCHANGED <<hist_vars, util_vars, model, app_vars, fetch_vars, sent_in, batch_size, filtered_df, texts, bi,
                   all_results, calls>>

(***************************************************************************)
(* app.py, lines 25-43: the "Fetch & Analyse" handler around               *)
(* sentiment(fetch_data(keyword, limit))                                   *)
(***************************************************************************)
\* st.session_state.df = df
store_on_success(has, old, new) == <<TRUE, new>>
\* except Exception as e: st.error(...)
keep_on_failure_clear(has, old, partial) == <<FALSE, NoFrame>>
keep_on_failure(has, old, partial) == <<has, old>>

\* the handler is over: the locals of fetch_data and sentiment are gone
LocalsDropped ==
    /\ exc' = "none"
    /\ limit' = 0
    /\ subreddits' = <<>>
    /\ i' = 1
    /\ all_data' = <<>>
    /\ outcomes' = <<>>
    /\ fetch_result' = NoFrame
    /\ sent_in' = NoFrame
    /\ batch_size' = DefaultBatchSize
    /\ filtered_df' = NoFrame
    /\ texts' = <<>>
    /\ bi' = 0
    /\ all_results' = <<>>
    /\ calls' = <<>>
    /\ sent_out' = NoFrame
    /\ pauses' = <<>>

HandlerStore ==
    /\ pc = "sentiment_done"
    /\ session_has_df' = store_on_success(session_has_df, session_df, sent_out)[1]
    /\ session_df' = store_on_success(session_has_df, session_df, sent_out)[2]
    /\ message' = "success"
    /\ pc' = "idle"
    /\ LocalsDropped
    /\ UNCHANGED <<invoked, shown, util_vars, model>>

HandlerExcept ==
    /\ pc = "raised"
    /\ session_has_df' = keep_on_failure(session_has_df, session_df, filtered_df)[1]
    /\ session_df' = keep_on_failure(session_has_df, session_df, filtered_df)[2]
    /\ message' = "error"
    /\ pc' = "idle"
    /\ LocalsDropped
    /\ UNCHANGED <<invoked, shown, util_vars, model>>

\* nothing has been recorded yet
HistIdle ==
    /\ invoked = <<>>
    /\ shown = {}
    /\ pauses = <<>>

\* no utlity function is being called
NotCalled == [raised |-> "not called"]
UtilIdle ==
    /\ arg_df = NoFrame
    /\ table0 = NoFrame
    /\ sel = {}
    /\ start_date = NoDate
    /\ end_date = NoDate
    /\ ret_subreddit_range = NotCalled
    /\ ret_time_range = NotCalled
    /\ ret_key_metrics = NotCalled
    /\ ret_pie = NotCalled
    /\ ret_examples = NotCalled
    /\ ret_examples2 = NotCalled
    /\ HistIdle

Init ==
    /\ UtilIdle
    /\ pc = "idle"
    /\ message = "none"
    /\ exc = "none"
    /\ session_has_df = FALSE
    /\ session_df = NoFrame
    /\ limit = 0
    /\ subreddits = <<>>
    /\ i = 1
    /\ all_data = <<>>
    /\ outcomes = <<>>
    /\ fetch_result = NoFrame
    /\ sent_in = NoFrame
    /\ batch_size = DefaultBatchSize
    /\ filtered_df = NoFrame
    /\ texts = <<>>
    /\ bi = 0
    /\ all_results = <<>>
    /\ calls = <<>>
    /\ sent_out = NoFrame
    /\ model \in [CleanTexts -> Labels]

Next ==
    \/ Click
    \/ ClickBlankKeyword
    \/ ClickSearchRaises
    \/ FetchSource
    \/ FetchForbidden
    \/ FetchOtherError
    \/ FetchReturn
    \/ SentimentStart
    \/ SentimentBatch
    \/ SentimentBatchRaises
    \/ SentimentReturn
    \/ HandlerStore
    \/ HandlerExcept

Spec == Init /\ [][Next]_vars

(***************************************************************************)
(* utlity.py                                                               *)
(***************************************************************************)
SetMin(S) == CHOOSE x \in S : \A y \in S : x <= y
SetMax(S) == CHOOSE x \in S : \A y \in S : x >= y
RECURSIVE SumOver(_, _)
SumOver(f, S) ==
    IF S = {} THEN 0
    ELSE LET x == CHOOSE y \in S : TRUE IN f[x] + SumOver(f, S \ {x})

\* pd.to_datetime(..., errors='coerce') on one cell: "MM/YYYY" parses to the
\* first day of the month at 00:00:00, a string that is no date becomes NaT
to_datetime(cell) ==
    CASE cell.kind = "datetime"  -> cell
      [] cell.kind = "month_str" -> DT(MonthStart(cell.v))
      [] OTHER                   -> NaT

\* df['Post Time'] = pd.to_datetime(df['Post Time'], errors='coerce')
parse_post_time(df) ==
    Frame(df.cols, "datetime",
          [k \in 1 .. Len(df.rows) |-> [df.rows[k] EXCEPT !.PostTime = to_datetime(@)]])

\* valid_time_range: pd.to_datetime without errors='coerce' raises on a
\* string that is no date; NaT is dropped; (None, None) when nothing is left
valid_time_range(df) ==
    IF \E k \in 1 .. Len(df.rows) : df.rows[k].PostTime.kind = "bad_str"
    THEN [raised |-> "ValueError", min_date |-> NoDate, max_date |-> NoDate]
    ELSE LET valid_dates == {to_datetime(df.rows[k].PostTime).v :
                                k \in {j \in 1 .. Len(df.rows) :
                                          to_datetime(df.rows[j].PostTime).kind = "datetime"}}
         IN  IF valid_dates = {}
             THEN [raised |-> "none", min_date |-> NoDate, max_date |-> NoDate]
             ELSE [raised |-> "none", min_date |-> DateOf(SetMin(valid_dates)),
                   max_date |-> DateOf(SetMax(valid_dates))]

\* df["Subreddit"].isin(subreddits), one cell
isin_or_all(x, S) == S = {} \/ x \in S
isin(x, S) == x \in S

\* subreddit_range: df.loc[mask] is a new frame, the argument is left alone
subreddit_range(df, S) ==
    Frame(df.cols, df.pt_dtype, SelectSeq(df.rows, LAMBDA r : isin(r.Subreddit, S)))

\* datetime.combine(d, datetime.min.time()) and datetime.combine(d, datetime.max.time())
start_of_day(d) == d * TicksPerDay
end_of_day(d)   == d * TicksPerDay + (TicksPerDay - 1)

\* df["Post Time"] > start_date, one cell (NaT compares False)
after_start_inclusive(cell, start) == cell.kind = "datetime" /\ cell.v >= start
after_start(cell, start) == cell.kind = "datetime" /\ cell.v > start
\* df["Post Time"] < end_date, one cell
before_end(cell, end) == cell.kind = "datetime" /\ cell.v < end

\* time_range: the column assignment changes the frame it was given (arg);
\* datetime.combine(None, ...) raises TypeError
time_range(df, sd, ed) ==
    LET parsed == parse_post_time(df) IN
    IF sd = NoDate \/ ed = NoDate
    THEN [raised |-> "TypeError", out |-> NoFrame, arg |-> parsed]
    ELSE [raised |-> "none",
          out |-> Frame(parsed.cols, parsed.pt_dtype,
                        SelectSeq(parsed.rows,
                                  LAMBDA r : /\ after_start(r.PostTime, start_of_day(sd))
                                             /\ before_end(r.PostTime, end_of_day(ed)))),
          arg |-> parsed]

\* the two filters every aggregation applies first
filtered(df, S, sd, ed) == time_range(subreddit_range(df, S), sd, ed)

\* df.groupby("Sentiment").size(), the size of one group (case-sensitive)
group_size(rows, label) == Len(SelectSeq(rows, LAMBDA r : r.Sentiment = label))

\* key_metrics: int(...) of the one-row lookup raises TypeError when the
\* group is missing; total_posts is the local set on line 104
key_metrics(df, S, sd, ed) ==
    LET f == filtered(df, S, sd, ed) IN
    IF f.raised # "none"
    THEN [raised |-> f.raised, line104 |-> FALSE, total_posts |-> 0,
          positive |-> 0, neutral |-> 0, negative |-> 0]
    ELSE LET rows == f.out.rows
             neg  == group_size(rows, "negative")
             neu  == group_size(rows, "neutral")
             pos  == group_size(rows, "positive")
         IN  IF neg = 0 \/ neu = 0 \/ pos = 0
             THEN [raised |-> "TypeError", line104 |-> TRUE, total_posts |-> Len(rows),
                   positive |-> 0, neutral |-> 0, negative |-> 0]
             ELSE [raised |-> "none", line104 |-> TRUE, total_posts |-> Len(rows),
                   positive |-> pos, neutral |-> neu, negative |-> neg]

\* df.groupby(["Subreddit", "Sentiment"]).size().reset_index(name="count"):
\* one row per (Subreddit, Sentiment) pair that occurs, with its size
pair_sizes(rows) ==
    [p \in {<<rows[k].Subreddit, rows[k].Sentiment>> : k \in 1 .. Len(rows)} |->
        Len(SelectSeq(rows, LAMBDA r : r.Subreddit = p[1] /\ r.Sentiment = p[2]))]

\* df.groupby("Subreddit").sum(), the "count" column
sum_by_subreddit_max(sizes) ==
    [sub \in {p[1] : p \in DOMAIN sizes} |->
        SetMax({sizes[p] : p \in {q \in DOMAIN sizes : q[1] = sub}})]
sum_by_subreddit(sizes) ==
    [sub \in {p[1] : p \in DOMAIN sizes} |->
        SumOver(sizes, {q \in DOMAIN sizes : q[1] = sub})]

\* contribution_pie_chart: the frame handed to px.pie, count per Subreddit
contribution_pie_chart(df, S, sd, ed) ==
    LET f == filtered(df, S, sd, ed) IN
    IF f.raised # "none"
    THEN [raised |-> f.raised, count |-> <<>>]
    ELSE [raised |-> "none", count |-> sum_by_subreddit(pair_sizes(f.out.rows))]

\* df.drop(axis=1, columns="Title + Text"): a new frame without the column
drop_title_text(df) ==
    Frame(df.cols \ {"Title + Text"}, df.pt_dtype,
          [k \in 1 .. Len(df.rows) |-> [df.rows[k] EXCEPT !.TitleText = NoCell]])

\* df["Sentiment"] = df["Sentiment"].str.lower()
lower_sentiment(rows) ==
    [k \in 1 .. Len(rows) |-> [rows[k] EXCEPT !.Sentiment = Lower(@)]]

\* show_examples: arg is the frame the caller passed, as the call leaves it
show_examples_inplace(df, S, sd, ed) ==
    LET f == filtered(df, S, sd, ed) IN
    IF f.raised # "none"
    THEN [raised |-> f.raised, positive |-> <<>>, neutral |-> <<>>, negative |-> <<>>,
          arg |-> df]
    ELSE IF "Title + Text" \notin f.out.cols
    THEN [raised |-> "KeyError", positive |-> <<>>, neutral |-> <<>>, negative |-> <<>>,
          arg |-> df]
    ELSE LET rows == lower_sentiment(drop_title_text(f.out).rows) IN
         [raised |-> "none",
          positive |-> SelectSeq(rows, LAMBDA r : r.Sentiment = "positive"),
          neutral  |-> SelectSeq(rows, LAMBDA r : r.Sentiment = "neutral"),
          negative |-> SelectSeq(rows, LAMBDA r : r.Sentiment = "negative"),
          arg |-> drop_title_text(df)]
show_examples(df, S, sd, ed) ==
    LET f == filtered(df, S, sd, ed) IN
    IF f.raised # "none"
    THEN [raised |-> f.raised, positive |-> <<>>, neutral |-> <<>>, negative |-> <<>>,
          arg |-> df]
    ELSE IF "Title + Text" \notin f.out.cols
    THEN [raised |-> "KeyError", positive |-> <<>>, neutral |-> <<>>, negative |-> <<>>,
          arg |-> df]
    ELSE LET rows == lower_sentiment(drop_title_text(f.out).rows) IN
         [raised |-> "none",
          positive |-> SelectSeq(rows, LAMBDA r : r.Sentiment = "positive"),
          neutral  |-> SelectSeq(rows, LAMBDA r : r.Sentiment = "neutral"),
          negative |-> SelectSeq(rows, LAMBDA r : r.Sentiment = "negative"),
          arg |-> df]

(***************************************************************************)
(* The filter functions on their own: subreddit_range and time_range       *)
(* applied to a table of any Subreddit and "Post Time" cells.              *)
(***************************************************************************)
FilterNames == {"A", "B"}
\* the instants of the last day of month 0 and the first day of month 1
FilterTicks == {t \in Ticks : DateOf(t) \in {DaysPerMonth - 1, DaysPerMonth}}
FilterCells == {DT(t) : t \in FilterTicks} \cup {MonthStr(m) : m \in Months} \cup {BadStr, NaT}
FilterDates == {DaysPerMonth - 1, DaysPerMonth, DaysPerMonth + 1}

FilterRow(k, sub, cell) ==
    [idx |-> k - 1, Title |-> "Nice", Subreddit |-> sub, PostTime |-> cell,
     Text |-> "day", Link |-> "L", TitleText |-> NoCell, Sentiment |-> NoCell]

InitFilter ==
    /\ pc = "call_subreddit_range"
    /\ message = "none"
    /\ exc = "none"
    /\ session_has_df = FALSE
    /\ session_df = NoFrame
    /\ limit = 0
    /\ subreddits = <<>>
    /\ i = 1
    /\ all_data = <<>>
    /\ outcomes = <<>>
    /\ fetch_result = NoFrame
    /\ sent_in = NoFrame
    /\ batch_size = DefaultBatchSize
    /\ filtered_df = NoFrame
    /\ texts = <<>>
    /\ bi = 0
    /\ all_results = <<>>
    /\ calls = <<>>
    /\ sent_out = NoFrame
    /\ model = [t \in CleanTexts |-> "neutral"]
    /\ \/ \E n \in 0 .. MaxFilterRows : \E subs \in [1 .. n -> FilterNames \cup {"C"}] :
             /\ arg_df = Frame(PostCols, "object",
                               [k \in 1 .. n |-> FilterRow(k, subs[k], MonthStr(1))])
             /\ sel \in SUBSET FilterNames
             /\ start_date = DaysPerMonth - 1
             /\ end_date = DaysPerMonth
       \/ \E n \in 0 .. MaxFilterRows : \E cells \in [1 .. n -> FilterCells] :
             /\ arg_df = Frame(PostCols, "object",
                               [k \in 1 .. n |-> FilterRow(k, "A", cells[k])])
             /\ sel = {"A"}
             /\ start_date \in FilterDates
             /\ end_date \in FilterDates
    /\ table0 = arg_df
    /\ ret_subreddit_range = NotCalled
    /\ ret_time_range = NotCalled
    /\ ret_key_metrics = NotCalled
    /\ ret_pie = NotCalled
    /\ ret_examples = NotCalled
    /\ ret_examples2 = NotCalled
    /\ HistIdle

CallSubredditRange ==
    /\ pc = "call_subreddit_range"
    /\ ret_subreddit_range' = subreddit_range(arg_df, sel)
    /\ pc' = "call_time_range"
    /\ UNCHANGED <<hist_vars, exc, model, app_vars, fetch_vars, sent_vars, arg_df, table0, sel,
                   start_date, end_date, ret_time_range, ret_key_metrics, ret_pie,
                   ret_examples, ret_examples2>>

\* time_range(arg_df, ...): the caller's frame is the one the assignment changes
CallTimeRange ==
    /\ pc = "call_time_range"
    /\ ret_time_range' = time_range(arg_df, start_date, end_date)
    /\ arg_df' = time_range(arg_df, start_date, end_date).arg
    /\ pc' = "filters_called"
    /\ UNCHANGED <<hist_vars, exc, model, app_vars, fetch_vars, sent_vars, table0, sel,
                   start_date, end_date, ret_subreddit_range, ret_key_metrics, ret_pie,
                   ret_examples, ret_examples2>>

NextFilter ==
    \/ CallSubredditRange
    \/ CallTimeRange

SpecFilter == InitFilter /\ [][NextFilter]_vars

(***************************************************************************)
(* The aggregations on their own, each called with the same session table, *)
(* selection and date range, show_examples twice. The session table is one *)
(* the pipeline produces: "MM/YYYY" strings in Post Time and a label in     *)
(* Sentiment. Source A has posts of months 1 and 2, source B of month 2.   *)
(***************************************************************************)
AggLabels   == Labels \cup {"POSITIVE"}
AggRowKinds == ({"A"} \X {1, 2} \X AggLabels) \cup ({"B"} \X {2} \X AggLabels)
\* the tables one row longer than MaxAggRows hold posts of source A, month 2
AggLongRowKinds == {"A"} \X {2} \X AggLabels
AggSels     == {{}, {"A"}, {"A", "B"}}
\* <<start_date, end_date>>: from before the first post to month 2, the two
\* month starts the date picker offers, one month, an inverted range
AggRanges   == LET m1 == DateOf(MonthStart(1))
                   m2 == DateOf(MonthStart(2))
               IN  {<<m1 - 1, m2>>, <<m1, m2>>, <<m1, m1>>, <<m2, m2>>, <<m2, m1>>}

LabeledRow(k, kind) ==
    [idx |-> k - 1, Title |-> "Nice", Subreddit |-> kind[1], PostTime |-> MonthStr(kind[2]),
     Text |-> "day", Link |-> "L", TitleText |-> "nice day", Sentiment |-> kind[3]]

InitAgg ==
    /\ pc = "call_key_metrics"
    /\ message = "success"
    /\ exc = "none"
    /\ session_has_df = TRUE
    /\ \E n \in 0 .. MaxAggRows + 1 :
          \E kinds \in [1 .. n -> IF n <= MaxAggRows THEN AggRowKinds ELSE AggLongRowKinds] :
             session_df = Frame(LabeledCols, "object",
                                [k \in 1 .. n |-> LabeledRow(k, kinds[k])])
    /\ limit = 0
    /\ subreddits = <<>>
    /\ i = 1
    /\ all_data = <<>>
    /\ outcomes = <<>>
    /\ fetch_result = NoFrame
    /\ sent_in = NoFrame
    /\ batch_size = DefaultBatchSize
    /\ filtered_df = NoFrame
    /\ texts = <<>>
    /\ bi = 0
    /\ all_results = <<>>
    /\ calls = <<>>
    /\ sent_out = NoFrame
    /\ model = [t \in CleanTexts |-> "neutral"]
    /\ arg_df = NoFrame
    /\ table0 = session_df
    /\ sel \in AggSels
    /\ \E r \in AggRanges : start_date = r[1] /\ end_date = r[2]
    /\ ret_subreddit_range = NotCalled
    /\ ret_time_range = NotCalled
    /\ ret_key_metrics = NotCalled
    /\ ret_pie = NotCalled
    /\ ret_examples = NotCalled
    /\ ret_examples2 = NotCalled
    /\ HistIdle

agg_unchanged == <<hist_vars, exc, model, message, session_has_df, fetch_vars, sent_vars, arg_df,
                   table0, sel, start_date, end_date, ret_subreddit_range, ret_time_range>>

\* key_metrics(df, ...) with df = st.session_state.df: every filter works on
\* the copy subreddit_range made, the session frame is not written
CallKeyMetrics ==
    /\ pc = "call_key_metrics"
    /\ ret_key_metrics' = key_metrics(session_df, sel, start_date, end_date)
    /\ pc' = "call_pie_chart"
    /\ UNCHANGED <<agg_unchanged, session_df, ret_pie, ret_examples, ret_examples2>>

CallContributionPieChart ==
    /\ pc = "call_pie_chart"
    /\ ret_pie' = contribution_pie_chart(session_df, sel, start_date, end_date)
    /\ pc' = "call_show_examples"
    /\ UNCHANGED <<agg_unchanged, session_df, ret_key_metrics, ret_examples, ret_examples2>>

CallShowExamples ==
    /\ pc = "call_show_examples"
    /\ ret_examples' = show_examples(session_df, sel, start_date, end_date)
    /\ session_df' = show_examples(session_df, sel, start_date, end_date).arg
    /\ pc' = "call_show_examples_again"
    /\ UNCHANGED <<agg_unchanged, ret_key_metrics, ret_pie, ret_examples2>>

CallShowExamplesAgain ==
    /\ pc = "call_show_examples_again"
    /\ ret_examples2' = show_examples(session_df, sel, start_date, end_date)
    /\ session_df' = show_examples(session_df, sel, start_date, end_date).arg
    /\ pc' = "aggregations_called"
    /\ UNCHANGED <<agg_unchanged, ret_key_metrics, ret_pie, ret_examples>>

NextAgg ==
    \/ CallKeyMetrics
    \/ CallContributionPieChart
    \/ CallShowExamples
    \/ CallShowExamplesAgain

SpecAgg == InitAgg /\ [][NextAgg]_vars

(***************************************************************************)
(* app.py, lines 48-166: one run of the dashboard part of the script on a  *)
(* session table the pipeline produced. The multiselect offers the sources *)
(* of the table, the date picker the days from min_date to max_date.       *)
(***************************************************************************)
\* start_date and end_date before line 69 or line 79 assigned them
Unassigned == 0 - 2

\* pd.unique(df["Subreddit"]), the options of the multiselect
subreddit_list(df) == {df.rows[k].Subreddit : k \in 1 .. Len(df.rows)}

\* "if subreddits:" on line 82
subreddits_chosen_always(S) == TRUE
subreddits_chosen(S) == S # {}

\* the five chart functions in the order the script calls them
ChartCalls == <<"sentiment_pie_chart", "sentiment_bar_chart", "sentiment_line_chart",
                "contribution_pie_chart", "contribution_bar_chart">>

\* Source A has posts of months 1 and 2, source B one kind of post.
DashRowKinds == ({"A"} \X {1, 2} \X Labels) \cup ({"B"} \X {2} \X {"negative"})

\* sentiment(fetch_data(...)): the table of a fetch that found no source has
\* the four columns of the empty result and the two sentiment adds
DashTable(rows) ==
    Frame(IF rows = <<>> THEN EmptyCols \cup {"Title + Text", "Sentiment"} ELSE LabeledCols,
          "object", rows)

InitDashboard ==
    /\ pc = "dash_filters"
    /\ message = "success"
    /\ exc = "none"
    /\ session_has_df = TRUE
    /\ \E n \in 0 .. MaxDashRows : \E kinds \in [1 .. n -> DashRowKinds] :
          session_df = DashTable([k \in 1 .. n |-> LabeledRow(k, kinds[k])])
    /\ limit = 0
    /\ subreddits = <<>>
    /\ i = 1
    /\ all_data = <<>>
    /\ outcomes = <<>>
    /\ fetch_result = NoFrame
    /\ sent_in = NoFrame
    /\ batch_size = DefaultBatchSize
    /\ filtered_df = NoFrame
    /\ texts = <<>>
    /\ bi = 0
    /\ all_results = <<>>
    /\ calls = <<>>
    /\ sent_out = NoFrame
    /\ model = [t \in CleanTexts |-> "neutral"]
    /\ arg_df = NoFrame
    /\ table0 = session_df
    /\ sel = {}
    /\ start_date = Unassigned
    /\ end_date = Unassigned
    /\ ret_subreddit_range = NotCalled
    /\ ret_time_range = NotCalled
    /\ ret_key_metrics = NotCalled
    /\ ret_pie = NotCalled
    /\ ret_examples = NotCalled
    /\ ret_examples2 = NotCalled
    /\ HistIdle

dash_unchanged == <<model, message, session_has_df, fetch_vars, sent_vars, arg_df, table0,
                    ret_subreddit_range, ret_time_range, ret_examples2, pauses>>

\* lines 58-67: the user's selection among the options, then
\* valid_time_range(subreddit_range(df, subreddits)) and "if min_date and max_date"
DashSelect ==
    /\ pc = "dash_filters"
    /\ \E S \in SUBSET subreddit_list(session_df) :
          LET r == valid_time_range(subreddit_range(session_df, S)) IN
          /\ sel' = S
          /\ exc' = r.raised
          /\ pc' = IF r.raised # "none" THEN "dash_raised"
                   ELSE IF r.min_date # NoDate /\ r.max_date # NoDate
                        THEN "dash_date_input"
                        ELSE "dash_no_dates"
    /\ UNCHANGED <<dash_unchanged, session_df, start_date, end_date, ret_key_metrics,
                   ret_pie, ret_examples, invoked, shown>>

\* lines 69-74: st.date_input returns a range within [min_date, max_date]
DashDateInput ==
    /\ pc = "dash_date_input"
    /\ LET r == valid_time_range(subreddit_range(session_df, sel)) IN
       \E sd \in r.min_date .. r.max_date : \E ed \in sd .. r.max_date :
          /\ start_date' = sd
          /\ end_date' = ed
    /\ pc' = "dash_main"
    /\ UNCHANGED <<dash_unchanged, exc, session_df, sel, ret_key_metrics, ret_pie,
                   ret_examples, invoked, shown>>

\* line 69 while the user has picked the first day of a new range only: the
\* widget returns a 1-tuple and "start_date, end_date = ..." raises ValueError
DashDateInputPartial ==
    /\ pc = "dash_date_input"
    /\ exc' = "ValueError"
    /\ pc' = "dash_raised"
    /\ UNCHANGED <<dash_unchanged, session_df, sel, start_date, end_date, ret_key_metrics,
                   ret_pie, ret_examples, invoked, shown>>

\* lines 75-79
DashNoValidDates ==
    /\ pc = "dash_no_dates"
    /\ shown' = shown \cup {"warning"}
    /\ start_date' = NoDate
    /\ end_date' = NoDate
    /\ pc' = "dash_main"
    /\ UNCHANGED <<dash_unchanged, exc, session_df, sel, ret_key_metrics, ret_pie,
                   ret_examples, invoked>>

\* lines 82-93
DashKeyMetrics ==
    /\ pc = "dash_main"
    /\ subreddits_chosen(sel)
    /\ invoked' = Append(invoked, "key_metrics")
    /\ ret_key_metrics' = key_metrics(session_df, sel, start_date, end_date)
    /\ exc' = ret_key_metrics'.raised
    /\ pc' = IF ret_key_metrics'.raised # "none" THEN "dash_raised" ELSE "dash_charts"
    /\ UNCHANGED <<dash_unchanged, session_df, sel, start_date, end_date, ret_pie,
                   ret_examples, shown>>

\* lines 95-141: each chart function applies the two filters, then groups
DashCharts ==
    /\ pc = "dash_charts"
    /\ LET f == filtered(session_df, sel, start_date, end_date) IN
       IF f.raised # "none"
       THEN /\ invoked' = Append(invoked, ChartCalls[1])
            /\ exc' = f.raised
            /\ pc' = "dash_raised"
            /\ UNCHANGED ret_pie
       ELSE /\ invoked' = invoked \o ChartCalls
            /\ ret_pie' = contribution_pie_chart(session_df, sel, start_date, end_date)
            /\ pc' = "dash_examples"
            /\ UNCHANGED exc
    /\ UNCHANGED <<dash_unchanged, session_df, sel, start_date, end_date, ret_key_metrics,
                   ret_examples, shown>>

\* lines 143-162
DashShowExamples ==
    /\ pc = "dash_examples"
    /\ invoked' = Append(invoked, "show_examples")
    /\ ret_examples' = show_examples(session_df, sel, start_date, end_date)
    /\ session_df' = show_examples(session_df, sel, start_date, end_date).arg
    /\ exc' = ret_examples'.raised
    /\ pc' = IF ret_examples'.raised # "none" THEN "dash_raised" ELSE "dash_done"
    /\ UNCHANGED <<dash_unchanged, sel, start_date, end_date, ret_key_metrics, ret_pie, shown>>

\* lines 164-166
DashInfo ==
    /\ pc = "dash_main"
    /\ ~subreddits_chosen(sel)
    /\ shown' = shown \cup {"info"}
    /\ pc' = "dash_done"
    /\ UNCHANGED <<dash_unchanged, exc, session_df, sel, start_date, end_date,
                   ret_key_metrics, ret_pie, ret_examples, invoked>>

NextDashboard ==
    \/ DashSelect
    \/ DashDateInput
    \/ DashDateInputPartial
    \/ DashNoValidDates
    \/ DashKeyMetrics
    \/ DashCharts
    \/ DashShowExamples
    \/ DashInfo

SpecDashboard == InitDashboard /\ [][NextDashboard]_vars

(***************************************************************************)
(* fetch_data on its own: one call, for any list the search may return and *)
(* any limit.                                                              *)
(***************************************************************************)
InitFetch ==
    /\ UtilIdle
    /\ pc = "fetch_loop"
    /\ message = "none"
    /\ exc = "none"
    /\ session_has_df = FALSE
    /\ session_df = NoFrame
    /\ limit \in 0 .. MaxPosts
    /\ subreddits \in SourceLists
    /\ i = 1
    /\ all_data = <<>>
    /\ outcomes = <<>>
    /\ fetch_result = NoFrame
    /\ sent_in = NoFrame
    /\ batch_size = DefaultBatchSize
    /\ filtered_df = NoFrame
    /\ texts = <<>>
    /\ bi = 0
    /\ all_results = <<>>
    /\ calls = <<>>
    /\ sent_out = NoFrame
    /\ model = [t \in CleanTexts |-> "neutral"]

NextFetch ==
    \/ FetchSource
    \/ FetchForbidden
    \/ FetchOtherError
    \/ FetchReturn

SpecFetch == InitFetch /\ [][NextFetch]_vars

\* the loop is sequential and every request it makes comes back, with
\* posts or with an exception: an iteration that can run does run
SpecFetchLive == SpecFetch /\ WF_vars(NextFetch)

(***************************************************************************)
(* sentiment on its own: one call, for any table of posts and batch size.  *)
(***************************************************************************)
PostRow(k, body) ==
    [idx |-> k - 1, Title |-> "Nice", Subreddit |-> "A", PostTime |-> MonthStr(1),
     Text |-> body, Link |-> "L", TitleText |-> NoCell, Sentiment |-> NoCell]

InitSentiment ==
    /\ UtilIdle
    /\ pc = "sentiment_start"
    /\ message = "none"
    /\ exc = "none"
    /\ session_has_df = FALSE
    /\ session_df = NoFrame
    /\ limit = 0
    /\ subreddits = <<>>
    /\ i = 1
    /\ all_data = <<>>
    /\ outcomes = <<>>
    /\ fetch_result = NoFrame
    /\ \E n \in 0 .. MaxRows : \E bodies \in [1 .. n -> Bodies \cup {AbsentText}] :
          sent_in = Frame(PostCols, "object", [k \in 1 .. n |-> PostRow(k, bodies[k])])
    /\ batch_size \in 1 .. MaxBatch
    /\ filtered_df = NoFrame
    /\ texts = <<>>
    /\ bi = 0
    /\ all_results = <<>>
    /\ calls = <<>>
    /\ sent_out = NoFrame
    /\ model \in [CleanTexts -> Labels]

NextSentiment ==
    \/ SentimentStart
    \/ SentimentBatch
    \/ SentimentBatchRaises
    \/ SentimentReturn

SpecSentiment == InitSentiment /\ [][NextSentiment]_vars

(***************************************************************************)
(* Properties of fetch_data                                                *)
(***************************************************************************)
FetchReturned == pc = "sentiment_start" /\ fetch_result # NoFrame
FetchRaised   == pc = "raised"

RowsOfSource(df, s) == SelectSeq(df.rows, LAMBDA r : r.Subreddit = s)

\* C1: when fetch_data returns, every source of the list was requested once,
\* in order; a source that raised Forbidden has no row in the returned
\* table; and every other source, also one that comes after a forbidden
\* one, has exactly the posts it yielded in the returned table, in order.
C1_ForbiddenSkippedRestFetched ==
    FetchReturned =>
        /\ [k \in 1 .. Len(outcomes) |-> outcomes[k].source] = subreddits
        /\ \A k \in 1 .. Len(outcomes) :
              LET got == RowsOfSource(fetch_result, outcomes[k].source)
                  subs == outcomes[k].subs
              IN  /\ outcomes[k].kind = "forbidden" => got = <<>>
                  /\ outcomes[k].kind = "ok" =>
                        /\ Len(got) = Len(subs)
                        /\ \A j \in 1 .. Len(subs) :
                              /\ got[j].Title = subs[j].title
                              /\ got[j].Text = subs[j].selftext
                              /\ got[j].Link = subs[j].url
                              /\ got[j].PostTime = strftime_mY(subs[j].created)

C1_Witness ==
    /\ FetchReturned
    /\ \E j, k \in 1 .. Len(outcomes) :
          /\ j < k
          /\ outcomes[j].kind = "forbidden"
          /\ outcomes[k].kind = "ok"
          /\ outcomes[k].subs # <<>>
          /\ RowsOfSource(fetch_result, outcomes[k].source) # <<>>

\* C3: when no source yielded a row and no source raised anything but
\* Forbidden, fetch_data returns (does not raise) an empty table with the
\* five columns of a non-empty result.
C3_EmptyResultHasFullSchema ==
    ( /\ FetchReturned \/ FetchRaised
      /\ Len(outcomes) = Len(subreddits)
      /\ \A k \in 1 .. Len(outcomes) : outcomes[k].kind # "error" /\ outcomes[k].subs = <<>> )
    => /\ FetchReturned
       /\ fetch_result.rows = <<>>
       /\ fetch_result.cols = PostCols

(***************************************************************************)
(* Properties of the handler                                               *)
(***************************************************************************)
session == <<session_has_df, session_df>>

\* C2: the session table changes only in the step that ends a fully
\* successful fetch and classification, and that step replaces it by the
\* classified table; every other step, a failing one included, leaves
\* "df" in st.session_state and its value as they were.
C2_SessionChangesOnlyOnSuccess ==
    [][ /\ session' # session =>
            /\ pc = "sentiment_done"
            /\ message' = "success"
        /\ (pc = "sentiment_done" /\ pc' = "idle") => session' = <<TRUE, sent_out>>
        /\ (pc = "raised" /\ pc' = "idle") => (message' = "error" /\ session' = session)
      ]_vars

C2_Witness ==
    /\ pc = "idle"
    /\ message = "error"
    /\ session_has_df
    /\ session_df.rows # <<>>

(***************************************************************************)
(* Properties of sentiment                                                 *)
(***************************************************************************)
\* C9: sentiment never fails on a length mismatch, and when it returns, its
\* rows are the input rows with non-absent Text, in order, the k-th of them
\* carrying the label the classifier returned for the k-th text it was
\* given, that text being the cleaned title and body of the k-th such row.
C9_OneLabelPerRowInOrder ==
    /\ pc = "raised" => exc # "ValueError"
    /\ pc = "sentiment_done" =>
          LET kept     == SelectSeq(sent_in.rows, LAMBDA r : r.Text # AbsentText)
              given    == Flatten([c \in 1 .. Len(calls) |-> calls[c].batch])
              returned == Flatten([c \in 1 .. Len(calls) |-> calls[c].results])
          IN  /\ Len(sent_out.rows) = Len(kept)
              /\ Len(given) = Len(kept)
              /\ Len(returned) = Len(kept)
              /\ \A c \in 1 .. Len(calls) : Len(calls[c].batch) <= batch_size
              /\ \A k \in 1 .. Len(kept) :
                    /\ sent_out.rows[k].idx = kept[k].idx
                    /\ sent_out.rows[k].Text = kept[k].Text
                    /\ given[k] = clean_text(<<kept[k].Title, kept[k].Text>>)
                    /\ sent_out.rows[k].Sentiment = returned[k]

C9_Witness ==
    /\ pc = "sentiment_done"
    /\ batch_size = 2
    /\ Len(sent_in.rows) = 4
    /\ Len(sent_out.rows) = 3
    /\ Len(calls) = 2
    /\ sent_out.rows[1].Sentiment # sent_out.rows[3].Sentiment

(***************************************************************************)
(* Properties of the filter functions                                      *)
(***************************************************************************)
Indexes(rows) == [k \in 1 .. Len(rows) |-> rows[k].idx]

\* The instant a "Post Time" cell stands for once re-parsed; NoTick if none.
NoTick == 0 - 1
ReparsedTick(cell) ==
    CASE cell.kind = "datetime"  -> cell.v
      [] cell.kind = "month_str" -> cell.v * DaysPerMonth * TicksPerDay
      [] OTHER                   -> NoTick
\* strictly after 00:00:00 of day sd and strictly before 23:59:59.999999 of day ed
StrictlyInside(t, sd, ed) ==
    /\ t # NoTick
    /\ DateOf(t) > sd \/ (DateOf(t) = sd /\ TimesOfDay[(t % TicksPerDay) + 1] # "00:00:00.000000")
    /\ DateOf(t) < ed \/ (DateOf(t) = ed /\ TimesOfDay[(t % TicksPerDay) + 1] # "23:59:59.999999")

C7_SubredditRangeExact ==
    pc = "call_time_range" =>
        /\ ret_subreddit_range.rows = SelectSeq(arg_df.rows, LAMBDA r : r.Subreddit \in sel)
        /\ ret_subreddit_range.cols = arg_df.cols
        /\ sel = {} => ret_subreddit_range.rows = <<>>

C7_Witness ==
    /\ pc = "call_time_range"
    /\ Len(arg_df.rows) = 3
    /\ sel = {"A", "B"}
    /\ Indexes(ret_subreddit_range.rows) = <<0, 2>>
    /\ ret_subreddit_range.rows[1].Subreddit # ret_subreddit_range.rows[2].Subreddit

(***************************************************************************)
(* Properties of the aggregations                                          *)
(***************************************************************************)
RowsOfSelection == SelectSeq(table0.rows, LAMBDA r : r.Subreddit \in sel)
RowsOfSlice ==
    SelectSeq(table0.rows,
              LAMBDA r : /\ r.Subreddit \in sel
                         /\ StrictlyInside(ReparsedTick(r.PostTime), start_date, end_date))
CountLabel(rows, label) == Len(SelectSeq(rows, LAMBDA r : r.Sentiment = label))
KeyMetricsCalled == pc \in {"call_pie_chart", "call_show_examples",
                            "call_show_examples_again", "aggregations_called"}

\* the dates valid_time_range reports for the rows of the selection
FullRange == valid_time_range(Frame(table0.cols, table0.pt_dtype, RowsOfSelection))

\* C4: with the full date range of the selection (what the date picker
\* offers and defaults to) and every label of the selection one of
\* positive, neutral, negative, each occurring, key_metrics returns the
\* number of rows of the selection as total and the number of those rows
\* carrying each label as the three counts.
C4_FullRangeCountsWholeSelection ==
    ( /\ KeyMetricsCalled
      /\ FullRange.raised = "none"
      /\ FullRange.min_date # NoDate
      /\ start_date = FullRange.min_date
      /\ end_date = FullRange.max_date
      /\ \A l \in Labels : CountLabel(RowsOfSelection, l) > 0
      /\ \A k \in 1 .. Len(RowsOfSelection) : RowsOfSelection[k].Sentiment \in Labels )
    => /\ ret_key_metrics.raised = "none"
       /\ ret_key_metrics.total_posts = Len(RowsOfSelection)
       /\ ret_key_metrics.positive = CountLabel(RowsOfSelection, "positive")
       /\ ret_key_metrics.neutral = CountLabel(RowsOfSelection, "neutral")
       /\ ret_key_metrics.negative = CountLabel(RowsOfSelection, "negative")

\* C5: key_metrics does not fail on a slice in which a category has no row,
\* and the count it returns for a category is the number of rows of the
\* slice in that category, 0 when the slice has none (stated here for the
\* slices that have a row; the claim also covers the slice with none).
C5_MissingCategoryCountsZero ==
    (KeyMetricsCalled /\ sel # {} /\ RowsOfSlice # <<>>) =>
        /\ ret_key_metrics.raised = "none"
        /\ ret_key_metrics.positive = CountLabel(RowsOfSlice, "positive")
        /\ ret_key_metrics.neutral = CountLabel(RowsOfSlice, "neutral")
        /\ ret_key_metrics.negative = CountLabel(RowsOfSlice, "negative")

\* C8: the per-source counts contribution_pie_chart plots sum to the row
\* count key_metrics computes for the same table, selection and date range
\* (total_posts, the total it returns whenever it returns).
C8_PieCountsSumToTotal ==
    pc \in {"call_show_examples", "call_show_examples_again", "aggregations_called"} =>
        /\ ret_pie.raised = "none"
        /\ ret_key_metrics.line104
        /\ SumOver(ret_pie.count, DOMAIN ret_pie.count) = ret_key_metrics.total_posts

C8_Witness ==
    /\ pc = "call_show_examples"
    /\ ret_key_metrics.raised = "none"
    /\ ret_key_metrics.total_posts = 3
    /\ DOMAIN ret_pie.count = {"A", "B"}
    /\ ret_pie.count["A"] = 2

\* the spellings of a label that lower-case to it
Spellings(name) == IF name = "positive" THEN {"positive", "POSITIVE"} ELSE {name}
ExampleGroup(ret, name) ==
    CASE name = "positive" -> ret.positive
      [] name = "neutral"  -> ret.neutral
      [] name = "negative" -> ret.negative

\* C10: show_examples returns, for each of positive, neutral, negative, the
\* rows of the slice whose Sentiment lower-cases to it, in table order and
\* carrying the lower-cased label; the call leaves the session table as it
\* was, and a second call returns the same three groups.
C10_ShowExamplesGroupsAndRepeat ==
    /\ pc \in {"call_show_examples_again", "aggregations_called"} =>
          /\ session_df = table0
          /\ ret_examples.raised = "none"
          /\ \A name \in Labels :
                /\ Indexes(ExampleGroup(ret_examples, name)) =
                      Indexes(SelectSeq(RowsOfSlice, LAMBDA r : r.Sentiment \in Spellings(name)))
                /\ \A k \in 1 .. Len(ExampleGroup(ret_examples, name)) :
                      ExampleGroup(ret_examples, name)[k].Sentiment = name
    /\ pc = "aggregations_called" => ret_examples2 = ret_examples

C10_Witness ==
    /\ pc = "aggregations_called"
    /\ Len(table0.rows) = 3
    /\ table0.rows[1].Sentiment = "POSITIVE"
    /\ table0.rows[2].Sentiment = "negative"
    /\ table0.rows[3].Sentiment = "positive"
    /\ Indexes(ret_examples2.positive) = <<0, 2>>
    /\ Indexes(ret_examples2.negative) = <<1>>

(***************************************************************************)
(* The dashboard: empty selections.                                        *)
(***************************************************************************)
\* the selection is empty: no source chosen, or no valid date for the chosen
\* sources (lines 77-79 set both dates to None)
EmptySelection == sel = {} \/ start_date = NoDate \/ end_date = NoDate

\* C11: whenever the selection is empty - no source chosen, or start_date and
\* end_date set to None because the chosen sources have no valid date - the
\* dashboard invokes no aggregation function (key_metrics, a chart function,
\* show_examples), raises no error, and shows nothing but the warning and the
\* informational message, which it has shown when the run is over.
C11_EmptySelectionInvokesNothing ==
    EmptySelection =>
        /\ invoked = <<>>
        /\ pc # "dash_raised"
        /\ exc = "none"
        /\ ret_key_metrics = NotCalled /\ ret_pie = NotCalled /\ ret_examples = NotCalled
        /\ shown \subseteq {"warning", "info"}
        /\ pc = "dash_done" => "info" \in shown

\* a table with posts, nothing selected: both dates None, the run is over
\* with the informational message and no call
C11_Witness ==
    /\ pc = "dash_done"
    /\ Len(session_df.rows) = 2
    /\ sel = {}
    /\ start_date = NoDate /\ end_date = NoDate
    /\ shown = {"warning", "info"}
    /\ invoked = <<>>

(***************************************************************************)
(* fetch_data: the pause after each fetch, and the end of the loop.        *)
(***************************************************************************)
\* the positions in the list of the sources whose fetch returned, in order
FetchedPositions ==
    SelectSeq([k \in 1 .. Len(outcomes) |-> k], LAMBDA k : outcomes[k].kind = "ok")

\* what the claim says of one pause: a sleep until the reset time, never
\* negative, when the remaining quota is reported and below 2, otherwise 0.5 s
PauseAsStated(p) ==
    /\ p.slept >= 0
    /\ IF p.remaining # NoQuota /\ p.remaining < 2
       THEN p.kind = "reset" /\ p.slept = (IF p.reset_in > 0 THEN p.reset_in ELSE 0)
       ELSE p.kind = "courtesy" /\ p.slept = 500

\* every source is requested at most once, in the order of the list; each
\* fetch that returned is followed by exactly one pause, made before the next
\* source is requested; a forbidden source has no pause and no quota check
PausesAndVisits ==
    /\ Len(outcomes) <= Len(subreddits)
    /\ \A k \in 1 .. Len(outcomes) : outcomes[k].source = subreddits[k]
    /\ pc = "fetch_loop" => i = Len(outcomes) + 1
    /\ Len(pauses) = Len(FetchedPositions)
    /\ \A j \in 1 .. Len(pauses) :
          /\ pauses[j].after = FetchedPositions[j]
          /\ PauseAsStated(pauses[j])
    /\ FetchReturned => Len(outcomes) = Len(subreddits)

\* C12: in fetch_data's sequential loop, after each successful per-source
\* fetch and before the next source is requested exactly one pause happens:
\* a sleep until the rate-limit reset time (never negative) when the reported
\* remaining quota is below 2, otherwise the fixed 0.5 s delay; a source
\* skipped as forbidden triggers no pause and no quota check; and the loop
\* terminates, having visited each discovered source exactly once when
\* fetch_data returns.
C12_OnePausePerFetchAndLoopEnds ==
    /\ []PausesAndVisits
    /\ <>(pc # "fetch_loop")

\* the first source is forbidden, the second is fetched with one request
\* left and a reset time already past: one pause, of zero length
C12_Witness ==
    /\ FetchReturned
    /\ Len(outcomes) = 2
    /\ outcomes[1].kind = "forbidden"
    /\ outcomes[2].kind = "ok"
    /\ Len(pauses) = 1
    /\ pauses[1].after = 2
    /\ pauses[1].remaining = 1
    /\ pauses[1].reset_in < 0
    /\ pauses[1].slept = 0

(***************************************************************************)
(* key_metrics against show_examples.                                      *)
(***************************************************************************)
\* C13: for the same table, source selection and date range, the positive,
\* neutral and negative counts key_metrics returns equal the sizes of the
\* positive, neutral and negative groups show_examples returns, for every
\* label spelling the classifier may return.
C13_CountsEqualExampleGroupSizes ==
    (/\ pc = "aggregations_called"
     /\ ret_key_metrics.raised = "none"
     /\ ret_examples.raised = "none")
        => /\ ret_key_metrics.positive = Len(ret_examples.positive)
           /\ ret_key_metrics.neutral = Len(ret_examples.neutral)
           /\ ret_key_metrics.negative = Len(ret_examples.negative)

====
